---- MODULE Spec2Model ----
(***************************************************************************)
(* Model of update_records.py: a dynamic-DNS client for dynv6's REST API.  *)
(* One run of main() is a sequence of steps (load cache, resolve zone,     *)
(* discover address, update zone / create zone, list records, create or    *)
(* update records, persist); runs follow each other and communicate only   *)
(* through the .records file and the provider's state.                     *)
(*                                                                         *)
(* Python's None is NoneInt (0) where an id is expected and NoneStr where  *)
(* a string is expected; provider ids are positive, so `not zone_id` and   *)
(* `record_id is None` are both `= NoneInt`.  A JSON object is a function  *)
(* from its keys, so a missing key and a null value are distinct.          *)
(***************************************************************************)
EXTENDS Integers, Sequences, FiniteSets, TLC

VARIABLES
    file,                  \* RECORDS_FILE: [exists, contents]
    zones,                 \* provider: zones, in the order GET /zones returns them
    precs,                 \* provider: records, in the order GET .../records returns them
    pc,                    \* position of the run in main()
    zone, prefix,          \* args.zone, args.prefix
    zone_id, zone_ipv4, zone_ipv6,
    ipv4_record, ipv4_record_address,
    ipv6_record, ipv6_record_address,
    current_ipv6_address,
    results,               \* the list dumped to RECORDS_FILE
    records,               \* the (record_id, address, record) tuples still to process
    calls,                 \* history: provider calls of this run, in order
    preFile,               \* history: RECORDS_FILE as it was when this run started
    writes,                \* history: number of times this run wrote RECORDS_FILE
    callsAtWrite,          \* history: number of provider calls made before the write
    host_ipv6,             \* environment: the address the host has during this run
    runs,                  \* history: number of runs started so far
    repeat                 \* history: the previous run completed without a failed call
                           \* and had the same arguments and address as this one

vars == << file, zones, precs, pc, zone, prefix, zone_id, zone_ipv4, zone_ipv6,
           ipv4_record, ipv4_record_address, ipv6_record, ipv6_record_address,
           current_ipv6_address, results, records, calls, preFile, writes,
           callsAtWrite, host_ipv6, repeat, runs >>

-----------------------------------------------------------------------------
(* Bounds and value sets *)

MaxRuns == 3               \* the number of consecutive runs considered
MaxZones == 2              \* the provider holds at most this many zones
MaxRecords == 3            \* the provider holds at most this many records

NoneInt == 0
NoneStr == "None"
KeyError == -1             \* the outcome of obj[key] when key is missing

Addresses == {"2001:db8::1", "2001:db8::2"}
Prefixes == {"home", "lab"}
ZoneArgs == {"42", "example.com", "other.org"}

EmptyObj == [k \in {} |-> NoneInt]

NoFile == [exists |-> FALSE, contents |-> << >>]

\* dict.get(key) for an id-valued / a string-valued key
GetInt(obj, key) == IF key \in DOMAIN obj THEN obj[key] ELSE NoneInt
GetStr(obj, key) == IF key \in DOMAIN obj THEN obj[key] ELSE NoneStr

\* obj[key]: raises KeyError when the key is missing
Index(obj, key) == IF key \in DOMAIN obj THEN obj[key] ELSE KeyError

\* int(zone): the zone id when args.zone is a decimal literal, else ValueError -> None
ZoneIdOfArg(z) == IF z = "42" THEN 42 ELSE NoneInt

current_ipv4_address == NoneStr

-----------------------------------------------------------------------------
(* The provider's initial state: one zone, and some records in it *)

Zone42 == [id |-> 42, name |-> "example.com", ipv4_address |-> NoneStr,
           ipv6_prefix |-> NoneStr]

PRec(i, t, n, d) == [id |-> i, zone |-> 42, type |-> t, name |-> n, data |-> d]

InitialRecords ==
    { << >>,
      << PRec(1, "AAAA", "home", "2001:db8::1") >>,
      << PRec(1, "AAAA", "home", "2001:db8::1"), PRec(2, "AAAA", "home", "2001:db8::2") >>,
      << PRec(1, "A", "home", "192.0.2.1"), PRec(2, "AAAA", "lab", "2001:db8::2") >> }

\* A cache file left by a run that had the update of the A record enabled
\* (line 120) and discovered no IPv6 address: the A record it created, alone.
\* It goes with the last provider state of InitialRecords.
IPv4CacheFile ==
    [exists |-> TRUE,
     contents |-> << [type |-> "A", name |-> "home", data |-> "192.0.2.1", id |-> 1] >>]

IPv4CacheRecords ==
    << PRec(1, "A", "home", "192.0.2.1"), PRec(2, "AAAA", "lab", "2001:db8::2") >>

\* open(RECORDS_FILE, "w") in the place of the read: the file is truncated
OpenTruncating(f) == [exists |-> TRUE, contents |-> << >>]

\* open(RECORDS_FILE, "r"): reading leaves the file as it is (line 84)
OpenForReading(f) == f

-----------------------------------------------------------------------------
(* Pure parts of main() *)

\* get_zone without the comparison of the name: the first zone listed
get_zone_any(domain, zs) == IF zs = << >> THEN EmptyObj ELSE zs[1]

\* get_zone: the first zone whose name equals `domain`, else {}
get_zone(domain, zs) ==
    LET hits == { i \in 1..Len(zs) : GetStr(zs[i], "name") = domain }
    IN  IF hits = {} THEN EmptyObj
        ELSE zs[CHOOSE i \in hits : \A j \in hits : i <= j]

\* One iteration of the loop over the cache file's entries (lines 86-104).
\* st.ok = FALSE records a failed assert.
LoadEntry(st, record) ==
    IF "zone_id" \in DOMAIN record
    THEN LET st1 == [st EXCEPT !.zone_ipv4 = GetStr(record, "ipv4"),
                               !.zone_ipv6 = GetStr(record, "ipv6")]
         IN  IF st.zone_id # NoneInt
             THEN [st1 EXCEPT !.ok = (record["zone_id"] = st.zone_id)]
             ELSE [st1 EXCEPT !.zone_id = record["zone_id"]]
    ELSE IF GetStr(record, "type") = "A"
    THEN [st EXCEPT !.ipv4_record = GetInt(record, "id"),
                    !.ipv4_record_address = GetStr(record, "data")]
    ELSE IF GetStr(record, "type") = "AAAA"
    THEN [st EXCEPT !.ipv6_record = GetInt(record, "id"),
                    !.ipv6_record_address = GetStr(record, "data")]
    ELSE st

RECURSIVE LoadFrom(_, _, _)
LoadFrom(contents, i, st) ==
    IF i > Len(contents) \/ ~st.ok THEN st
    ELSE LoadFrom(contents, i + 1, LoadEntry(st, contents[i]))

\* AdoptEntry without the comparison of the name with the prefix
AdoptEntry_anyname(st, record, pfx) ==
    IF GetStr(record, "type") = "A"
    THEN [st EXCEPT !.ipv4_record_address = record["data"],
                    !.ipv4_record = record["id"]]
    ELSE IF GetStr(record, "type") = "AAAA"
    THEN [st EXCEPT !.ipv6_record_address = record["data"],
                    !.ipv6_record = record["id"]]
    ELSE st

\* AdoptEntry that keeps the first match: a record is adopted only while none is
AdoptEntry_first(st, record, pfx) ==
    IF GetStr(record, "name") = pfx
    THEN IF GetStr(record, "type") = "A" /\ st.ipv4_record = NoneInt
         THEN [st EXCEPT !.ipv4_record_address = record["data"],
                         !.ipv4_record = record["id"]]
         ELSE IF GetStr(record, "type") = "AAAA" /\ st.ipv6_record = NoneInt
         THEN [st EXCEPT !.ipv6_record_address = record["data"],
                         !.ipv6_record = record["id"]]
         ELSE st
    ELSE st

\* One iteration of the loop over the provider's records (lines 189-196)
AdoptEntry(st, record, pfx) ==
    IF GetStr(record, "name") = pfx
    THEN IF GetStr(record, "type") = "A"
         THEN [st EXCEPT !.ipv4_record_address = record["data"],
                         !.ipv4_record = record["id"]]
         ELSE IF GetStr(record, "type") = "AAAA"
         THEN [st EXCEPT !.ipv6_record_address = record["data"],
                         !.ipv6_record = record["id"]]
         ELSE st
    ELSE st

RECURSIVE AdoptFrom(_, _, _, _)
AdoptFrom(listed, i, st, pfx) ==
    IF i > Len(listed) THEN st
    ELSE AdoptFrom(listed, i + 1, AdoptEntry(st, listed[i], pfx), pfx)

\* The payload of a record (lines 205, 213)
Payload(type, pfx, data) == [type |-> type, name |-> pfx, data |-> data]

\* The tuples appended to `records` (lines 198-215)
BuildRecords(r4, a4, r6, a6, pfx, cur4, cur6) ==
    (IF cur4 # NoneStr THEN << << r4, a4, Payload("A", pfx, cur4) >> >> ELSE << >>)
    \o (IF cur6 # NoneStr THEN << << r6, a6, Payload("AAAA", pfx, cur6) >> >> ELSE << >>)

\* RecordAction with the comparison of the addresses inverted
RecordAction_inverted(record_id, address, record) ==
    IF record_id = NoneInt THEN "create"
    ELSE IF address = record["data"] THEN "update"
    ELSE "unchanged"

\* The branch taken for one tuple (lines 218, 228, 250)
RecordAction(record_id, address, record) ==
    IF record_id = NoneInt THEN "create"
    ELSE IF address # record["data"] THEN "update"
    ELSE "unchanged"

\* The id stored into a created record (line 226)
CreatedId(response) == GetInt(response, "id")

\* NextAfterRecord with the write of the cache file left out after the loop
NextAfterRecord_nowrite(n) == IF n = 1 THEN "done" ELSE "loop"

\* Where the run goes after one iteration of the loop over `n` remaining tuples:
\* back into the loop, or on to the write of the cache file (lines 217, 254)
NextAfterRecord(n) == IF n = 1 THEN "persist" ELSE "loop"

\* A key of a dict that is set only when the value is truthy
OptKey(key, value) == IF value # NoneStr THEN (key :> value) ELSE EmptyObj

\* The query parameters of the zone update (lines 133-137)
ZoneAddresses(z4, z6, cur4, cur6) ==
    (IF cur4 # NoneStr /\ z4 # cur4 THEN ("ipv4_address" :> cur4) ELSE EmptyObj)
    @@ (IF cur6 # NoneStr /\ z6 # cur6 THEN ("ipv6_prefix" :> cur6) ELSE EmptyObj)

\* The entry appended after a zone update (lines 147-151)
ZoneUpdateResult(zid, cur4, cur6) ==
    ("zone_id" :> zid) @@ OptKey("ipv4", cur4) @@ OptKey("ipv6", cur6)

\* The entry appended after a zone creation (lines 172-178)
ZoneCreateResult(zid, data) ==
    ("zone_id" :> zid) @@ OptKey("ipv4", GetStr(data, "ipv4_address"))
                       @@ OptKey("ipv6", GetStr(data, "ipv6_prefix"))

\* The query parameters of the zone creation (lines 162-166)
ZoneCreateParams(z, cur4, cur6) ==
    ("name" :> z) @@ OptKey("ipv4_address", cur4) @@ OptKey("ipv6_prefix", cur6)

-----------------------------------------------------------------------------
(* The provider, as seen through its REST API *)

ZoneExists(zid) == \E i \in 1..Len(zones) : zones[i].id = zid

RecordsOfZone(zid) == SelectSeq(precs, LAMBDA r : r.zone = zid)

RecordExists(zid, rid) == \E i \in 1..Len(precs) : precs[i].id = rid /\ precs[i].zone = zid

Call(op, zid, rid, params, kind, respId) ==
    [op |-> op, zone_id |-> zid, record_id |-> rid, params |-> params,
     kind |-> kind, resp_id |-> respId]

-----------------------------------------------------------------------------
(* History bookkeeping *)

Healthy(cs) == \A i \in 1..Len(cs) : cs[i].kind = "ok"

Mutating(cs) == { i \in 1..Len(cs) : cs[i].op \in {"POST_zone", "PATCH_zone",
                                                  "POST_record", "PATCH_record"} }

\* The run now ending was (z, p, a), completed, and none of its calls failed
SameAsLast(z, p, a) ==
    pc = "done" /\ Healthy(calls) /\ z = zone /\ p = prefix /\ a = host_ipv6

-----------------------------------------------------------------------------
(* The state before the first run: one zone at the provider, and no cache file  *)
(* or the cache file of an earlier run that updated an A record                  *)

Init ==
    /\ \/ file = NoFile /\ precs \in InitialRecords
       \/ file = IPv4CacheFile /\ precs = IPv4CacheRecords
    /\ zones = << Zone42 >>
    /\ pc = "idle"
    /\ zone = NoneStr /\ prefix = NoneStr
    /\ zone_id = NoneInt /\ zone_ipv4 = NoneStr /\ zone_ipv6 = NoneStr
    /\ ipv4_record = NoneInt /\ ipv4_record_address = NoneStr
    /\ ipv6_record = NoneInt /\ ipv6_record_address = NoneStr
    /\ current_ipv6_address = NoneStr
    /\ results = << >> /\ records = << >>
    /\ calls = << >>
    /\ preFile = file
    /\ writes = 0 /\ callsAtWrite = 0
    /\ host_ipv6 = NoneStr
    /\ repeat = FALSE
    /\ runs = 0

provider == << zones, precs >>
cacheVars == << ipv4_record, ipv4_record_address, ipv6_record, ipv6_record_address >>
zoneVars == << zone_id, zone_ipv4, zone_ipv6 >>
history == << preFile, host_ipv6, repeat, runs >>

\* lines 59-82: parse the arguments, initialise the locals; `a` is the address the
\* host has while this run lasts
Start(z, p, a) ==
    /\ pc \in {"idle", "done", "aborted"}
    /\ zone' = z /\ prefix' = p
    /\ zone_id' = ZoneIdOfArg(z)
    /\ zone_ipv4' = NoneStr /\ zone_ipv6' = NoneStr
    /\ ipv4_record' = NoneInt /\ ipv4_record_address' = NoneStr
    /\ ipv6_record' = NoneInt /\ ipv6_record_address' = NoneStr
    /\ current_ipv6_address' = NoneStr
    /\ results' = << >> /\ records' = << >>
    /\ calls' = << >> /\ writes' = 0 /\ callsAtWrite' = 0
    /\ preFile' = file
    /\ host_ipv6' = a
    /\ runs < MaxRuns
    /\ runs' = runs + 1
    /\ repeat' = SameAsLast(z, p, a)
    /\ pc' = "load"
    /\ UNCHANGED << file, provider >>

\* lines 83-108: read the cache file; a failed assert ends the run
LoadCache ==
    /\ pc = "load"
    /\ LET st0 == [zone_id |-> zone_id, zone_ipv4 |-> zone_ipv4, zone_ipv6 |-> zone_ipv6,
                   ipv4_record |-> ipv4_record,
                   ipv4_record_address |-> ipv4_record_address,
                   ipv6_record |-> ipv6_record,
                   ipv6_record_address |-> ipv6_record_address, ok |-> TRUE]
           st == IF file.exists THEN LoadFrom(file.contents, 1, st0) ELSE st0
       IN  /\ zone_id' = st.zone_id
           /\ zone_ipv4' = st.zone_ipv4 /\ zone_ipv6' = st.zone_ipv6
           /\ ipv4_record' = st.ipv4_record
           /\ ipv4_record_address' = st.ipv4_record_address
           /\ ipv6_record' = st.ipv6_record
           /\ ipv6_record_address' = st.ipv6_record_address
           /\ pc' = IF st.ok THEN "getzone" ELSE "aborted"
    /\ file' = OpenForReading(file)
    /\ UNCHANGED << provider, zone, prefix, current_ipv6_address, results,
                    records, calls, writes, callsAtWrite, history >>

\* lines 110-115: ask the provider for the zone when no id is known
ResolveZone ==
    /\ pc = "getzone"
    /\ IF zone_id = NoneInt
       THEN LET zone_data == get_zone(zone, zones)
            IN  /\ zone_id' = GetInt(zone_data, "id")
                /\ zone_ipv4' = GetStr(zone_data, "ipv4_address")
                /\ zone_ipv6' = GetStr(zone_data, "ipv6_prefix")
                /\ calls' = Append(calls, Call("GET_zones", NoneInt, NoneInt, EmptyObj,
                                               "ok", NoneInt))
       ELSE UNCHANGED << zoneVars, calls >>
    /\ pc' = "discover"
    /\ UNCHANGED << file, provider, zone, prefix, cacheVars, current_ipv6_address,
                    results, records, writes, callsAtWrite, history >>

\* lines 117-131: the address the socket reports, or None on OSError
Discover ==
    /\ pc = "discover"
    /\ current_ipv6_address' = host_ipv6
    /\ pc' = IF zone_id # NoneInt /\ prefix = NoneStr THEN "updatezone" ELSE "newzone"
    /\ UNCHANGED << file, provider, zone, prefix, zoneVars, cacheVars, results, records,
                    calls, writes, callsAtWrite, history >>

\* lines 131-158: update the zone itself
UpdateZone ==
    /\ pc = "updatezone"
    /\ LET addresses == ZoneAddresses(zone_ipv4, zone_ipv6, current_ipv4_address,
                                      current_ipv6_address)
       IN  IF addresses = EmptyObj
           THEN /\ pc' = "persist"
                /\ UNCHANGED << provider, results, calls >>
           ELSE \E kind \in {"ok", "fail", "wrongid"} :
                LET data == CASE kind = "ok" -> [id |-> zone_id]
                              [] kind = "fail" -> EmptyObj
                              [] kind = "wrongid" -> [id |-> zone_id + 1]
                IN  /\ kind = "ok" => ZoneExists(zone_id)
                    /\ zones' = IF kind = "ok"
                                THEN [i \in 1..Len(zones) |->
                                        IF zones[i].id = zone_id
                                        THEN [zones[i] EXCEPT !.ipv6_prefix =
                                                GetStr(addresses, "ipv6_prefix")]
                                        ELSE zones[i]]
                                ELSE zones
                    /\ precs' = precs
                    /\ calls' = Append(calls, Call("PATCH_zone", zone_id, NoneInt,
                                                   addresses, kind, GetInt(data, "id")))
                    /\ IF Index(data, "id") = zone_id
                       THEN /\ results' = Append(results,
                                   ZoneUpdateResult(zone_id, current_ipv4_address,
                                                    current_ipv6_address))
                            /\ pc' = "persist"
                       ELSE /\ results' = results
                            /\ pc' = "aborted"
    /\ UNCHANGED << file, zone, prefix, zoneVars, cacheVars, current_ipv6_address,
                    records, writes, callsAtWrite, history >>

\* lines 160-180: register a new zone when none is known
CreateZone ==
    /\ pc = "newzone"
    /\ IF zone_id = NoneInt
       THEN \E kind \in {"ok", "fail"} :
            LET params == ZoneCreateParams(zone, current_ipv4_address,
                                           current_ipv6_address)
                data == IF kind = "ok"
                        THEN [id |-> 42 + Len(zones), name |-> zone,
                              ipv4_address |-> GetStr(params, "ipv4_address"),
                              ipv6_prefix |-> GetStr(params, "ipv6_prefix")]
                        ELSE EmptyObj
            IN  /\ kind = "ok" => Len(zones) < MaxZones
                /\ zones' = IF kind = "ok" THEN Append(zones, data) ELSE zones
                /\ precs' = precs
                /\ calls' = Append(calls, Call("POST_zone", NoneInt, NoneInt, params,
                                               kind, GetInt(data, "id")))
                /\ zone_id' = GetInt(data, "id")
                /\ IF GetInt(data, "id") # NoneInt
                   THEN /\ zone_ipv4' = GetStr(data, "ipv4_address")
                        /\ zone_ipv6' = GetStr(data, "ipv6_prefix")
                        /\ results' = Append(results,
                                             ZoneCreateResult(GetInt(data, "id"), data))
                   ELSE UNCHANGED << zone_ipv4, zone_ipv6, results >>
       ELSE UNCHANGED << provider, calls, zoneVars, results >>
    /\ pc' = IF prefix # NoneStr THEN "list" ELSE "persist"
    /\ UNCHANGED << file, zone, prefix, cacheVars, current_ipv6_address, records,
                    writes, callsAtWrite, history >>

\* lines 182-215: look the record ids up at the provider when none is cached, then
\* build the list of records to process.  A listing of a zone the provider does
\* not hold is an error response: iterating over it either raises or finds nothing.
ListRecords ==
    /\ pc = "list"
    /\ \E kind \in {"ok", "fail", "raise"} :
         LET query == ipv4_record = NoneInt /\ ipv6_record = NoneInt
             listed == IF kind = "ok" THEN RecordsOfZone(zone_id) ELSE << >>
             st0 == [ipv4_record |-> ipv4_record,
                     ipv4_record_address |-> ipv4_record_address,
                     ipv6_record |-> ipv6_record,
                     ipv6_record_address |-> ipv6_record_address]
             st == IF query THEN AdoptFrom(listed, 1, st0, prefix) ELSE st0
             built == BuildRecords(st.ipv4_record, st.ipv4_record_address,
                                   st.ipv6_record, st.ipv6_record_address,
                                   prefix, current_ipv4_address, current_ipv6_address)
         IN  /\ IF query THEN (kind = "ok") = ZoneExists(zone_id) ELSE kind = "ok"
             /\ calls' = IF query
                         THEN Append(calls, Call("GET_records", zone_id, NoneInt,
                                                 EmptyObj, kind, NoneInt))
                         ELSE calls
             /\ ipv4_record' = st.ipv4_record
             /\ ipv4_record_address' = st.ipv4_record_address
             /\ ipv6_record' = st.ipv6_record
             /\ ipv6_record_address' = st.ipv6_record_address
             /\ IF kind = "raise"
                THEN /\ records' = records
                     /\ pc' = "aborted"
                ELSE /\ records' = built
                     /\ pc' = IF built = << >> THEN "persist" ELSE "loop"
    /\ UNCHANGED << file, provider, zone, prefix, zoneVars, current_ipv6_address,
                    results, writes, callsAtWrite, history >>

\* lines 217-252: one iteration of the loop over `records`
ProcessRecord ==
    /\ pc = "loop"
    /\ records # << >>
    /\ LET record_id == records[1][1]
           address == records[1][2]
           record == records[1][3]
           action == RecordAction(record_id, address, record)
       IN  /\ \/ /\ action = "create"
                 /\ \E kind \in {"ok", "fail"} :
                      LET response == IF kind = "ok" THEN [id |-> Len(precs) + 1]
                                      ELSE EmptyObj
                      IN  /\ kind = "ok" => ZoneExists(zone_id) /\ Len(precs) < MaxRecords
                          /\ precs' = IF kind = "ok"
                                      THEN Append(precs,
                                             [id |-> Len(precs) + 1, zone |-> zone_id,
                                              type |-> record["type"],
                                              name |-> record["name"],
                                              data |-> record["data"]])
                                      ELSE precs
                          /\ calls' = Append(calls, Call("POST_record", zone_id, NoneInt,
                                                record, kind, GetInt(response, "id")))
                          /\ results' = Append(results,
                                                ("id" :> CreatedId(response)) @@ record)
                          /\ pc' = NextAfterRecord(Len(records))
              \/ /\ action = "update"
                 /\ \E kind \in {"ok", "fail", "wrongid"} :
                      LET response == CASE kind = "ok" -> [id |-> record_id]
                                        [] kind = "fail" -> EmptyObj
                                        [] kind = "wrongid" -> [id |-> record_id + 1]
                      IN  /\ kind = "ok" => RecordExists(zone_id, record_id)
                          /\ precs' = IF kind = "ok"
                                      THEN [i \in 1..Len(precs) |->
                                              IF precs[i].id = record_id
                                              THEN [precs[i] EXCEPT
                                                      !.type = record["type"],
                                                      !.name = record["name"],
                                                      !.data = record["data"]]
                                              ELSE precs[i]]
                                      ELSE precs
                          /\ calls' = Append(calls, Call("PATCH_record", zone_id,
                                                record_id, record, kind,
                                                GetInt(response, "id")))
                          /\ results' = Append(results, record)
                          /\ pc' = NextAfterRecord(Len(records))
              \/ /\ action = "unchanged"
                 /\ precs' = precs
                 /\ calls' = calls
                 /\ results' = Append(results, record)
                 /\ pc' = NextAfterRecord(Len(records))
           /\ records' = Tail(records)
    /\ UNCHANGED << file, zones, zone, prefix, zoneVars, cacheVars,
                    current_ipv6_address, writes, callsAtWrite, history >>

\* lines 254-256: overwrite the cache file with `results`
Persist ==
    /\ pc = "persist"
    /\ file' = [exists |-> TRUE, contents |-> results]
    /\ writes' = writes + 1
    /\ callsAtWrite' = Len(calls)
    /\ pc' = "done"
    /\ UNCHANGED << provider, zone, prefix, zoneVars, cacheVars, current_ipv6_address,
                    results, records, calls, history >>

Next ==
    \/ \E z \in ZoneArgs, p \in Prefixes \cup {NoneStr}, a \in Addresses \cup {NoneStr} :
         Start(z, p, a)
    \/ LoadCache
    \/ ResolveZone
    \/ Discover
    \/ UpdateZone
    \/ CreateZone
    \/ ListRecords
    \/ ProcessRecord
    \/ Persist

Spec == Init /\ [][Next]_vars

-----------------------------------------------------------------------------
(* Vocabulary of the properties *)

Entries(f) == { f.contents[i] : i \in 1..Len(f.contents) }

\* the record entries of a cache file for the AAAA family, and its zone entries
Entries6(f) == { e \in Entries(f) : "zone_id" \notin DOMAIN e /\ GetStr(e, "type") = "AAAA" }
ZoneEntries(f) == { e \in Entries(f) : "zone_id" \in DOMAIN e }

\* the AAAA entries of the cache that carry a record id
Cached6 == { e \in Entries6(preFile) : GetInt(e, "id") # NoneInt }

CallsOf(ops) == { i \in 1..Len(calls) : calls[i].op \in ops }

RecordCalls == CallsOf({"POST_record", "PATCH_record"})

\* the provider held a zone named z when this run started
ZoneAtStart(z) ==
    \E i \in 1..Len(zones) :
        /\ zones[i].name = z
        /\ ~ \E j \in CallsOf({"POST_zone"}) : calls[j].resp_id = zones[i].id

\* the provider held a record of zone zid with this name and type when this run started
MatchAtStart(zid, pfx, type) ==
    \E i \in 1..Len(precs) :
        /\ precs[i].zone = zid /\ precs[i].type = type
        /\ ~ \E j \in CallsOf({"POST_record"}) : calls[j].resp_id = precs[i].id
        /\ precs[i].name = pfx

-----------------------------------------------------------------------------
(* C1: idempotence.  A completed run none of whose provider calls failed, which   *)
(* follows a completed run without a failed call that had the same zone, prefix   *)
(* and discovered address, issues no POST and no PATCH, with and without prefix.  *)
(* (Stated for a zone the provider holds and an address that was discovered.)     *)
C1_Idempotent ==
    (/\ pc = "done" /\ repeat /\ Healthy(calls)
     /\ current_ipv6_address # NoneStr
     /\ (ZoneIdOfArg(zone) # NoneInt \/ ZoneAtStart(zone))) =>
        CallsOf({"POST_zone", "PATCH_zone", "POST_record", "PATCH_record"}) = {}

(* C2: when a record id is cached and the PATCH of the record fails, the file     *)
(* written at the end of the run holds, for that family, the cached id and the    *)
(* cached address.                                                                *)
C2_FailedUpdateKeepsCached ==
    (pc = "done" /\ prefix # NoneStr) =>
        \A e \in Cached6 :
            (\E j \in CallsOf({"PATCH_record"}) :
                 calls[j].kind = "fail" /\ calls[j].record_id = e["id"])
            => \E w \in Entries6(file) :
                   GetInt(w, "id") = e["id"] /\ GetStr(w, "data") = GetStr(e, "data")

(* C3: when no address is discovered, no provider call names the AAAA record type *)
(* and the file written at the end of the run still holds the AAAA record the     *)
(* file held before the run.                                                      *)
C3_AbsentCarriesForward ==
    (pc = "done" /\ current_ipv6_address = NoneStr) =>
        /\ \A j \in RecordCalls : GetStr(calls[j].params, "type") # "AAAA"
        /\ \A e \in Entries6(preFile) : e \in Entries6(file)

(* C4: isolation.  The record the loop is about to create, update or leave alone  *)
(* is never a cached record whose name differs from the prefix of this run.       *)
C4_Isolation ==
    (pc = "loop" /\ records # << >>) =>
        ~ \E e \in Cached6 :
            /\ GetStr(e, "name") # prefix
            /\ records[1][1] = e["id"]
            /\ records[1][2] = GetStr(e, "data")

(* C5: in a completed run with a prefix, a cached record id and a discovered      *)
(* address that differs from the cached address, there is exactly one PATCH of a  *)
(* record: to the cached id, in the zone the run resolved (zone_id), with payload  *)
(* {AAAA, prefix, discovered address}; no record is created; and if the PATCH    *)
(* succeeded, the one AAAA entry of the written file has the discovered address.  *)
C5_ChangedAddressUpdates ==
    (pc = "done" /\ prefix # NoneStr /\ current_ipv6_address # NoneStr) =>
        \A e \in Cached6 :
            GetStr(e, "data") # current_ipv6_address =>
                /\ CallsOf({"POST_record"}) = {}
                /\ Cardinality(CallsOf({"PATCH_record"})) = 1
                /\ \A j \in CallsOf({"PATCH_record"}) :
                       /\ calls[j].zone_id = zone_id
                       /\ calls[j].record_id = e["id"]
                       /\ calls[j].params =
                              Payload("AAAA", prefix, current_ipv6_address)
                       /\ (calls[j].kind = "ok" /\ calls[j].resp_id = e["id"]) =>
                              /\ Cardinality(Entries6(file)) = 1
                              /\ \A w \in Entries6(file) :
                                     GetStr(w, "data") = current_ipv6_address

C5_Witness ==
    /\ pc = "done" /\ prefix # NoneStr /\ current_ipv6_address # NoneStr
    /\ \E e \in Cached6 : GetStr(e, "data") # current_ipv6_address
    /\ \E j \in CallsOf({"PATCH_record"}) : calls[j].kind = "ok"

(* C6: in a completed run with a prefix, a cached record id and a discovered      *)
(* address equal to the cached address, no record is created or updated and the   *)
(* written file holds the cached record as it was.                                *)
C6_UnchangedVerbatim ==
    (pc = "done" /\ prefix # NoneStr /\ current_ipv6_address # NoneStr) =>
        \A e \in Cached6 :
            (GetStr(e, "data") = current_ipv6_address /\ GetStr(e, "name") = prefix) =>
                /\ RecordCalls = {}
                /\ e \in Entries6(file)


(* C7: in a completed run with no cache file, a zone name the provider holds, a   *)
(* discovered address, a prefix and no provider record of that zone matching the  *)
(* prefix and AAAA, the only POST or PATCH is one POST of a record with payload   *)
(* {AAAA, prefix, discovered address}, and the written file is exactly one        *)
(* record: that payload with the id of the response.                              *)
C7_FreshCreate ==
    (/\ pc = "done" /\ ~preFile.exists
     /\ ZoneIdOfArg(zone) = NoneInt /\ ZoneAtStart(zone)
     /\ prefix # NoneStr /\ current_ipv6_address # NoneStr
     /\ ~MatchAtStart(zone_id, prefix, "AAAA")) =>
        /\ Cardinality(CallsOf({"POST_zone", "PATCH_zone", "POST_record",
                                "PATCH_record"})) = 1
        /\ \A j \in CallsOf({"POST_zone", "PATCH_zone", "POST_record", "PATCH_record"}) :
               /\ calls[j].op = "POST_record"
               /\ \E i \in 1..Len(zones) :
                      zones[i].name = zone /\ zones[i].id = calls[j].zone_id
               /\ calls[j].params = Payload("AAAA", prefix, current_ipv6_address)
               /\ file.contents = << ("id" :> calls[j].resp_id) @@ calls[j].params >>
               /\ calls[j].kind = "ok" =>
                      \E i \in 1..Len(precs) :
                          /\ precs[i].id = calls[j].resp_id
                          /\ precs[i].zone = calls[j].zone_id
                          /\ precs[i].name = prefix /\ precs[i].type = "AAAA"
                          /\ precs[i].data = current_ipv6_address

C7_Witness ==
    /\ pc = "done" /\ ~preFile.exists
    /\ zone = "example.com" /\ prefix = "home" /\ current_ipv6_address = "2001:db8::1"
    /\ ~MatchAtStart(42, prefix, "AAAA")
    /\ \E j \in CallsOf({"POST_record"}) : calls[j].kind = "ok"
    /\ Len(file.contents) = 1 /\ GetInt(file.contents[1], "id") # NoneInt

(* C8: when the POST of a record fails, the file written at the end of the run    *)
(* holds no entry for that family.                                                *)
C8_FailedCreateOmitted ==
    (pc = "done" /\ \E j \in CallsOf({"POST_record"}) : calls[j].kind = "fail") =>
        Entries6(file) = {}

(* C9: the cache file is written at most once in a run; a completed run has       *)
(* written it exactly once, after all its provider calls; and a run in which the  *)
(* POST or PATCH of a record failed is not aborted, so it writes the file too.    *)
C9_PersistOnceAtEnd ==
    /\ writes <= 1
    /\ writes = 1 => pc = "done"
    /\ pc = "done" => (writes = 1 /\ callsAtWrite = Len(calls))
    /\ (\E j \in RecordCalls : calls[j].kind # "ok") => pc # "aborted"

C9_Witness ==
    /\ pc = "done" /\ writes = 1
    /\ \E j \in RecordCalls : calls[j].kind = "fail"
    /\ callsAtWrite = Len(calls)

\* no zone id is cached or supplied, and the provider held no zone of that name
ZoneUnknown ==
    /\ ZoneIdOfArg(zone) = NoneInt
    /\ ZoneEntries(preFile) = {}
    /\ ~ZoneAtStart(zone)

CachedZoneIds == { e["zone_id"] : e \in ZoneEntries(preFile) }

\* the zone supplied by the caller is not the zone the cache recorded: another
\* numeric id, or a name that is not the name of the cached zone
ZoneConflict ==
    \E c \in CachedZoneIds :
        IF ZoneIdOfArg(zone) # NoneInt
        THEN c # ZoneIdOfArg(zone)
        ELSE \E i \in 1..Len(zones) : zones[i].id = c /\ zones[i].name # zone

(* C11: when the zone supplied by the caller conflicts with the zone recorded in  *)
(* the cache, the run is aborted while loading the cache: it makes no provider    *)
(* call, does not write the cache file, and uses neither identity.                *)
C11_ConflictFailsFast ==
    (pc \notin {"idle", "load"} /\ ZoneConflict) =>
        /\ pc = "aborted"
        /\ calls = << >>
        /\ writes = 0 /\ file = preFile

Matches6 ==
    { i \in 1..Len(precs) :
        precs[i].zone = zone_id /\ precs[i].name = prefix /\ precs[i].type = "AAAA" }

FirstOf(S) == CHOOSE i \in S : \A j \in S : i <= j
LastOf(S) == CHOOSE i \in S : \A j \in S : i >= j

\* the records have just been listed and the loop has not started
JustListed ==
    /\ pc = "loop" /\ records # << >>
    /\ calls # << >>
    /\ calls[Len(calls)].op = "GET_records" /\ calls[Len(calls)].kind = "ok"

(* C13 as stated: when the listing holds several AAAA records named like the      *)
(* prefix, the one adopted (id and data) is the first in the provider's order.    *)
C13_FirstMatchWins ==
    (JustListed /\ Cardinality(Matches6) >= 2) =>
        /\ records[1][1] = precs[FirstOf(Matches6)].id
        /\ records[1][2] = precs[FirstOf(Matches6)].data

(* C13 amended: when the listing holds one or several AAAA records named like the *)
(* prefix, the one adopted (id and data) is the last in the provider's order;     *)
(* earlier matches are overwritten.                                               *)
C13_LastMatchWins ==
    (JustListed /\ Matches6 # {}) =>
        /\ records[1][1] = precs[LastOf(Matches6)].id
        /\ records[1][2] = precs[LastOf(Matches6)].data

C13_Witness ==
    /\ JustListed /\ Cardinality(Matches6) >= 2
    /\ records[1][1] = precs[LastOf(Matches6)].id
    /\ records[1][1] # precs[FirstOf(Matches6)].id


(* C14: when the PATCH of a cached record is answered with another record's id,   *)
(* the run is not aborted, and the file it writes keeps, for that family, the     *)
(* address the cache held before the run, not the discovered one.                 *)
C14_WrongEchoKeepsCached ==
    \A e \in Cached6 :
        (\E j \in CallsOf({"PATCH_record"}) :
             calls[j].kind = "wrongid" /\ calls[j].record_id = e["id"])
        => /\ pc # "aborted"
           /\ pc = "done" =>
                  /\ Entries6(file) # {}
                  /\ \A w \in Entries6(file) : GetStr(w, "data") = GetStr(e, "data")

(* C15: the file written by a completed run with a prefix and a discovered        *)
(* address is the list of results of the run and nothing else, and it holds the   *)
(* zone entry with the resolved zone id, also when the zone already existed.      *)
C15_SnapshotHoldsZone ==
    (pc = "done" /\ prefix # NoneStr /\ current_ipv6_address # NoneStr) =>
        /\ file = [exists |-> TRUE, contents |-> results]
        /\ zone_id # NoneInt =>
               \E e \in ZoneEntries(file) : e["zone_id"] = zone_id

(* C16: without a prefix and with the zone given as a numeric id, a completed run *)
(* that follows a completed run with the same address issues no PATCH of the      *)
(* zone, and a run that found the zone unchanged leaves the zone entry of the     *)
(* cache, with its address, in the file it writes.                                *)
C16_ApexStaysQuiet ==
    (/\ pc = "done" /\ prefix = NoneStr /\ ZoneIdOfArg(zone) # NoneInt
     /\ current_ipv6_address # NoneStr) =>
        /\ (repeat /\ Healthy(calls)) => CallsOf({"PATCH_zone"}) = {}
        /\ CallsOf({"PATCH_zone"}) = {} =>
               \A e \in ZoneEntries(preFile) : e \in ZoneEntries(file)

(* C17: a run that is aborted has not written the cache file: the file is what it *)
(* was when the run started, whether the run stopped at the assert on the cached  *)
(* zone id or at the check of the id in the answer to the zone update.            *)
C17_AbortLeavesFile ==
    pc = "aborted" => (writes = 0 /\ file = preFile)

C17_Witness ==
    /\ pc = "aborted"
    /\ file.exists /\ file.contents # << >>
    /\ \E j \in CallsOf({"PATCH_zone"}) : calls[j].kind = "wrongid"
    /\ file = preFile

====
